---- MODULE Spec2Model ----
(***************************************************************************)
(* Detection head of model.py (class AnchornizedFaceQuality): the per-scale *)
(* grid / anchor-grid cache, the coordinate decode, the training and        *)
(* porting pass-through modes, and the suppressor the head hands its        *)
(* candidate list to.                                                       *)
(*                                                                          *)
(* Tensors are records [shape |-> <<dims>>, at |-> [index tuple |-> value]] *)
(* with 0-based indices as in the source.  Raw activations are logits from  *)
(* a small table; squashed values are rationals <<num, den>>.               *)
(***************************************************************************)
EXTENDS Integers, Sequences, FiniteSets, TLC

VARIABLES
    strides,              \* self.strides (constructor argument)
    training,             \* self.training (nn.Module flag)
    porting,              \* self.porting
    grid,                 \* self.grid: one tensor per scale
    anchor_grid,          \* self.anchor_grid: one tensor per scale
    anchors_for_porting,  \* self.anchors_for_porting
    x,                    \* argument of the last forward call (head outputs)
    seen,                 \* flags that call read, and the slots it rebuilt
    ret,                  \* what the last forward call returned or raised
    nms_cfg,              \* suppressor: conf threshold, agnostic flag
    nms_in,               \* suppressor: candidate list
    nms_out               \* suppressor: kept detections per iou threshold tried

vars == <<strides, training, porting, grid, anchor_grid, anchors_for_porting,
          x, seen, ret, nms_cfg, nms_in, nms_out>>
headVars == <<strides, training, porting, grid, anchor_grid, anchors_for_porting, x, seen, ret>>
nmsVars == <<nms_cfg, nms_in, nms_out>>

----------------------------------------------------------------------------
(* Bounds of the model *)

\* a feature map has at most this many cells
Cells == 2
\* porting-mode calls are counted up to this many (the list grows without bound)
MaxPortingCalls == 2
\* candidates handed to the suppressor in the suppressor's own specification
MaxCands == 4

----------------------------------------------------------------------------
(* Construction: AnchornizedFaceQuality.__init__ *)

DATASET_NUM_DIMS == 6

\* anchors=None default
Anchors == << <<10, 13, 16, 30, 33, 23>>,
              <<30, 61, 62, 45, 59, 119>>,
              <<116, 90, 156, 198, 373, 326>> >>

\* strides=(8, 16, 32) default
DefaultStrides == <<8, 16, 32>>

nattr == DATASET_NUM_DIMS - 1 - 4
nl == Len(Anchors)
na == Len(Anchors[1]) \div 2
\* channels per anchor: box, obj, attributes
nch == 4 + 1 + nattr
out_channels == nch * na

\* self.anchors = tensor(anchors).view(nl, -1, 2): anchors[i][a] = (w, h)
anchors(i, a) == << Anchors[i + 1][2 * a + 1], Anchors[i + 1][2 * a + 2] >>

\* torch.zeros(1): the placeholder every slot of grid / anchor_grid starts with
Zeros1 == [shape |-> <<1>>, at |-> [k \in 0..0 |-> 0]]

\* Python slice t[lo:hi] of a tuple (0-based, hi exclusive, clipped to the length)
Slice(t, lo, hi) ==
    LET h == IF hi < Len(t) THEN hi ELSE Len(t)
    IN  IF lo >= h THEN <<>> ELSE SubSeq(t, lo + 1, h)

----------------------------------------------------------------------------
(* Elementwise logistic squash *)

\* raw activations the head convolutions can produce (finite floats)
Logits == <<-104, -2, 0, 2, 18>>

\* squashed values are multiples of 1/SigDen
SigDen == 8

\* Tensor.sigmoid() in floating point: exact 1/2 at 0, about 0.119 / 0.881 at
\* -2 / 2 (to the nearest 1/SigDen), and saturated at the ends: float32
\* rounds 1/(1+e^-18) to exactly 1.0 and underflows 1/(1+e^104) to exactly 0.0.
Sigmoid(t) ==
    CASE t = -104 -> 0
      [] t = -2   -> 1
      [] t = 0    -> 4
      [] t = 2    -> 7
      [] t = 18   -> SigDen

----------------------------------------------------------------------------
(* Tensors: contiguous row-major storage, at[k] for k in 0..numel-1 *)

\* storage offset of element (i1, ..., in) of a contiguous tensor
RECURSIVE Offset(_, _)
Offset(shape, idx) ==
    IF Len(shape) = 0 THEN 0
    ELSE LET m == Len(shape)
         IN  Offset(SubSeq(shape, 1, m - 1), SubSeq(idx, 1, m - 1)) * shape[m] + idx[m]

\* t[idx]
At(t, idx) == t.at[Offset(t.shape, idx)]

\* t.sigmoid(): same shape, every element squashed, as the rational s/SigDen
SigmoidT(t) == [shape |-> t.shape, at |-> [k \in DOMAIN t.at |-> <<Sigmoid(t.at[k]), SigDen>>]]

----------------------------------------------------------------------------
(* The argument of forward: the three head outputs x_p3, x_p4, x_p5 *)

\* (H, W) of the feature map of scale i: the two finer scales have Cells cells
\* in any arrangement, the coarsest has a single cell or a row of Cells cells
ShapesOf(i) ==
    IF i < 2 THEN {hw \in (1..Cells) \X (1..Cells) : hw[1] * hw[2] = Cells}
    ELSE {<<1, 1>>, <<1, Cells>>}

\* batch size of each of the three feature maps
Batches == {<<1, 1, 1>>, <<1, 2, 1>>}

\* a well-formed argument: three feature maps; ok = FALSE is an argument that
\* does not unpack into three feature maps the head convolutions accept
Inputs ==
    {[ok |-> TRUE, N |-> b, HW |-> <<s0, s1, s2>>] :
        b \in Batches, s0 \in ShapesOf(0), s1 \in ShapesOf(1), s2 \in ShapesOf(2)}
    \cup {[ok |-> FALSE, N |-> <<1, 1, 1>>, HW |-> <<<<1, 1>>, <<1, 1>>, <<1, 1>>>>]}

NoInput == [ok |-> FALSE, N |-> <<0, 0, 0>>, HW |-> <<<<0, 0>>, <<0, 0>>, <<0, 0>>>>]

\* the activation the head convolution of scale i puts at (n, ch, h, w)
RawLogit(i, n, ch, h, w) == Logits[((i + n + 2 * ch + 3 * h + w) % Len(Logits)) + 1]

\* x_p3 / x_p4 / x_p5: the output of head i, shape (N, out_channels, H, W)
HeadOut(inp, i) ==
    LET N == inp.N[i + 1]
        H == inp.HW[i + 1][1]
        W == inp.HW[i + 1][2]
        C == out_channels
    IN  [shape |-> <<N, C, H, W>>,
         at |-> [k \in 0..(N * C * H * W - 1) |->
                    RawLogit(i, k \div (C * H * W), (k \div (H * W)) % C, (k \div W) % H, k % W)]]

----------------------------------------------------------------------------
(* AnchornizedFaceQuality._make_grid *)

\* variant: the stack order exchanged, grid[0][a][r][c] = (yv, xv) = (r, c)
MakeGridSwapped(nx, ny, i, strd) ==
    IF i >= Len(strd)
    THEN [raised |-> TRUE, grid |-> Zeros1, anchor_grid |-> Zeros1, ported |-> <<>>]
    ELSE [raised |-> FALSE,
          grid |-> [shape |-> <<1, na, ny, nx, 2>>,
                    at |-> [k \in 0..(na * ny * nx * 2 - 1) |->
                               IF k % 2 = 0 THEN (k \div (nx * 2)) % ny ELSE (k \div 2) % nx]],
          anchor_grid |-> [shape |-> <<1, na, ny, nx, 2>>,
                           at |-> [k \in 0..(na * ny * nx * 2 - 1) |->
                                      anchors(i, k \div (ny * nx * 2))[(k % 2) + 1] * strd[i + 1]]],
          ported |-> [k \in 1..(2 * na) |->
                         anchors(i, (k - 1) \div 2)[((k - 1) % 2) + 1] * strd[i + 1]]]

\* variant: the appended anchor values not multiplied by the stride
MakeGridPortsUnscaled(nx, ny, i, strd) ==
    IF i >= Len(strd)
    THEN [raised |-> TRUE, grid |-> Zeros1, anchor_grid |-> Zeros1, ported |-> <<>>]
    ELSE [raised |-> FALSE,
          grid |-> [shape |-> <<1, na, ny, nx, 2>>,
                    at |-> [k \in 0..(na * ny * nx * 2 - 1) |->
                               IF k % 2 = 0 THEN (k \div 2) % nx ELSE (k \div (nx * 2)) % ny]],
          anchor_grid |-> [shape |-> <<1, na, ny, nx, 2>>,
                           at |-> [k \in 0..(na * ny * nx * 2 - 1) |->
                                      anchors(i, k \div (ny * nx * 2))[(k % 2) + 1] * strd[i + 1]]],
          ported |-> [k \in 1..(2 * na) |-> anchors(i, (k - 1) \div 2)[((k - 1) % 2) + 1]]]

\* grid has shape (1, na, ny, nx, 2) with grid[0][a][r][c] = (xv, yv) = (c, r);
\* anchor_grid[0][a][r][c] = anchors[i][a] * strides[i];
\* strides[i] raises IndexError when the stride list is shorter than the anchor list;
\* ported: the values appended to anchors_for_porting when self.porting is set
MakeGrid(nx, ny, i, strd) ==
    IF i >= Len(strd)
    THEN [raised |-> TRUE, grid |-> Zeros1, anchor_grid |-> Zeros1, ported |-> <<>>]
    ELSE [raised |-> FALSE,
          grid |-> [shape |-> <<1, na, ny, nx, 2>>,
                    at |-> [k \in 0..(na * ny * nx * 2 - 1) |->
                               IF k % 2 = 0 THEN (k \div 2) % nx ELSE (k \div (nx * 2)) % ny]],
          anchor_grid |-> [shape |-> <<1, na, ny, nx, 2>>,
                           at |-> [k \in 0..(na * ny * nx * 2 - 1) |->
                                      anchors(i, k \div (ny * nx * 2))[(k % 2) + 1] * strd[i + 1]]],
          ported |-> [k \in 1..(2 * na) |->
                         anchors(i, (k - 1) \div 2)[((k - 1) % 2) + 1] * strd[i + 1]]]

----------------------------------------------------------------------------
(* AnchornizedFaceQuality._reshape *)

\* variant: the channel axis split as (C / A, A) instead of (A, C / A)
ReshapeAnchorInner(t) ==
    LET N == t.shape[1]
        C == t.shape[2]
        H == t.shape[3]
        W == t.shape[4]
        A == na
        P == C \div A
    IN  [shape |-> <<N, A, H, W, P>>,
         at |-> [k \in 0..(N * A * H * W * P - 1) |->
                    LET n == k \div (A * H * W * P)
                        a == (k \div (H * W * P)) % A
                        h == (k \div (W * P)) % H
                        w == (k \div P) % W
                    IN  t.at[((n * C + (k % P) * A + a) * H + h) * W + w]]]

\* x.view(N, A, C / A, H, W).permute(0, 1, 3, 4, 2).contiguous(): element
\* (n, a, h, w, c) is channel a * (C / A) + c of cell (h, w)
Reshape(t) ==
    LET N == t.shape[1]
        C == t.shape[2]
        H == t.shape[3]
        W == t.shape[4]
        A == na
        P == C \div A
    IN  [shape |-> <<N, A, H, W, P>>,
         at |-> [k \in 0..(N * A * H * W * P - 1) |->
                    LET n == k \div (A * H * W * P)
                        a == (k \div (H * W * P)) % A
                        h == (k \div (W * P)) % H
                        w == (k \div P) % W
                    IN  t.at[((n * C + a * P + (k % P)) * H + h) * W + w]]]

----------------------------------------------------------------------------
(* AnchornizedFaceQuality.forward *)

\* variant: the legacy centre offset sig(t) + G in place of 2 sig(t) - 0.5 + G
DecodeLegacyOffset(xi, G, S, AS) ==
    LET y == SigmoidT(xi)
        C == y.shape[5]
        cells == y.shape[2] * y.shape[3] * y.shape[4]
    IN  [shape |-> y.shape,
         at |-> [k \in DOMAIN y.at |->
                    LET s == y.at[k][1]
                        g == ((k \div C) % cells) * 2 + ((k % C) % 2)
                    IN  IF k % C \in 0..1
                        THEN <<(s + SigDen * G.at[g]) * S, SigDen>>
                        ELSE IF k % C \in 2..3
                        THEN <<(2 * s) * (2 * s) * AS.at[g], SigDen * SigDen>>
                        ELSE y.at[k]]]

\* y = x[i].sigmoid(); y[..., 0:2] = (y[..., 0:2] * 2.0 - 0.5 + G) * S;
\* y[..., 2:4] = (y[..., 2:4] * 2.0) * (y[..., 2:4] * 2.0) * AS.
\* G and AS have batch dimension 1 and broadcast over the batch of y.
\* With s/SigDen the squashed value: 2s/D - 1/2 + g = (4s - D + 2Dg) / 2D.
\* Channel c of the slice 0:2 or 2:4 pairs with component c % 2 of G or AS.
Decode(xi, G, S, AS) ==
    LET y == SigmoidT(xi)
        C == y.shape[5]
        cells == y.shape[2] * y.shape[3] * y.shape[4]
    IN  [shape |-> y.shape,
         at |-> [k \in DOMAIN y.at |->
                    LET s == y.at[k][1]
                        g == ((k \div C) % cells) * 2 + ((k % C) % 2)
                    IN  IF k % C \in 0..1
                        THEN <<(4 * s - SigDen + 2 * SigDen * G.at[g]) * S, 2 * SigDen>>
                        ELSE IF k % C \in 2..3
                        THEN <<(2 * s) * (2 * s) * AS.at[g], SigDen * SigDen>>
                        ELSE y.at[k]]]

\* variant: view(N, H * W, C), the anchor factor left out
ViewCandidatesPerCell(y) ==
    [shape |-> <<y.shape[1], y.shape[3] * y.shape[4], y.shape[5]>>,
     at |-> [k \in 0..(y.shape[1] * y.shape[3] * y.shape[4] * y.shape[5] - 1) |-> y.at[k]]]

\* variant: the anchor axis permuted behind the cell axes before the view
ViewCandidatesCellMajor(y) ==
    LET N == y.shape[1]
        A == y.shape[2]
        H == y.shape[3]
        W == y.shape[4]
        C == y.shape[5]
    IN  [shape |-> <<N, A * H * W, C>>,
         at |-> [k \in DOMAIN y.at |->
                    LET n == k \div (A * H * W * C)
                        a == (k \div C) % A
                        h == (k \div (C * A * W)) % H
                        w == (k \div (C * A)) % W
                    IN  y.at[(((n * A + a) * H + h) * W + w) * C + (k % C)]]]

\* y.view(N, A * H * W, C): the same storage, row (a * H + h) * W + w
ViewCandidates(y) ==
    [shape |-> <<y.shape[1], y.shape[2] * y.shape[3] * y.shape[4], y.shape[5]>>, at |-> y.at]

\* x[i].view(N, C, -1) of the porting branch: the same storage, column h * W + w
ViewPorting(t) ==
    [shape |-> <<t.shape[1], t.shape[2], t.shape[3] * t.shape[4]>>, at |-> t.at]

RECURSIVE RowsBefore(_, _)
RowsBefore(outs, p) == IF p <= 1 THEN 0 ELSE RowsBefore(outs, p - 1) + outs[p - 1].shape[2]

\* the piece of outs that row j of the concatenation comes from
PieceOf(outs, j) == CHOOSE p \in 1..Len(outs) : RowsBefore(outs, p) <= j /\ j < RowsBefore(outs, p + 1)

\* torch.cat(outputs, dim=1) needs equal sizes in every other dimension
CatRaises(outs) == \E p \in 1..Len(outs) : outs[p].shape[1] # outs[1].shape[1] \/ outs[p].shape[3] # outs[1].shape[3]

Cat(outs) ==
    LET N == outs[1].shape[1]
        C == outs[1].shape[3]
        R == RowsBefore(outs, Len(outs) + 1)
    IN  [shape |-> <<N, R, C>>,
         at |-> [k \in 0..(N * R * C - 1) |->
                    LET n == k \div (R * C)
                        j == (k \div C) % R
                        p == PieceOf(outs, j)
                    IN  outs[p].at[(n * outs[p].shape[2] + j - RowsBefore(outs, p)) * C + (k % C)]]]

NoTensor == [shape |-> <<0>>, at |-> [k \in {} |-> 0]]

\* the loop of the porting branch from scale i on; st carries the object's
\* fields and the locals; a raise leaves the loop with the fields as they are
RECURSIVE PortingLoop(_, _, _, _)
PortingLoop(i, inp, strd, st) ==
    IF i >= nl THEN st
    ELSE LET xi == SigmoidT(HeadOut(inp, i))
             H == xi.shape[3]
             W == xi.shape[4]
             mg == MakeGrid(W, H, i, strd)
         IN  IF mg.raised
             THEN [st EXCEPT !.exc = "IndexError"]
             ELSE PortingLoop(i + 1, inp, strd,
                      [st EXCEPT !.afp = st.afp \o mg.ported,
                                 !.outputs = Append(st.outputs, ViewPorting(xi))])

\* the shape test that guards the rebuild of slot i
GridStale(g, xi) == Slice(g.shape, 2, 4) # Slice(xi.shape, 2, 4)

\* variant: the tensor shared by every slot ([zeros] * nl) written in place
StoreSlotShared(slots, i, t) == [j \in DOMAIN slots |-> t]

\* self.grid[i] = ... / self.anchor_grid[i] = ...: the list element is rebound
StoreSlot(slots, i, t) == [slots EXCEPT ![i] = t]

\* the main loop from scale i on
RECURSIVE MainLoop(_, _, _, _, _)
MainLoop(i, inp, strd, train, st) ==
    IF i >= nl THEN st
    ELSE LET xi == Reshape(HeadOut(inp, i))
             H == xi.shape[3]
             W == xi.shape[4]
             st1 == [st EXCEPT !.xs = Append(st.xs, xi)]
         IN  IF train
             THEN MainLoop(i + 1, inp, strd, train, st1)
             ELSE LET stale == GridStale(st.grid[i], xi)
                      mg == MakeGrid(W, H, i, strd)
                  IN  IF (stale /\ mg.raised) \/ i >= Len(strd)
                      THEN [st1 EXCEPT !.exc = "IndexError"]
                      ELSE LET st2 == IF stale
                                      THEN [st1 EXCEPT !.grid = StoreSlot(st.grid, i, mg.grid),
                                                       !.anchor_grid = StoreSlot(st.anchor_grid, i, mg.anchor_grid),
                                                       !.rebuilt = st.rebuilt \cup {i}]
                                      ELSE st1
                               y == Decode(xi, st2.grid[i], strd[i + 1], st2.anchor_grid[i])
                           IN  MainLoop(i + 1, inp, strd, train,
                                   [st2 EXCEPT !.outputs = Append(st.outputs, ViewCandidates(y))])

Returned(kind, value) == [kind |-> kind, exc |-> "", list |-> value, tensor |-> NoTensor]
Detections(cat) == [kind |-> "nms", exc |-> "", list |-> <<>>, tensor |-> cat]
Raised(exc) == [kind |-> "raised", exc |-> exc, list |-> <<>>, tensor |-> NoTensor]
NoReturn == [kind |-> "none", exc |-> "", list |-> <<>>, tensor |-> NoTensor]

\* forward(x): ret is what the call returns; in inference mode that is
\* self.nms(outputs), recorded by the tensor handed to the suppressor
Forward(inp) ==
    LET st0 == [grid |-> grid, anchor_grid |-> anchor_grid, afp |-> anchors_for_porting,
                outputs |-> <<>>, xs |-> <<>>, exc |-> "", rebuilt |-> {}]
    IN  /\ x' = inp
        /\ UNCHANGED <<strides, training, porting, nmsVars>>
        /\ IF ~inp.ok
           THEN \* p3, p4, p5 = x or a head convolution raises
                /\ ret' = Raised("ValueError")
                /\ seen' = [training |-> training, porting |-> porting, rebuilt |-> {}]
                /\ UNCHANGED <<grid, anchor_grid, anchors_for_porting>>
           ELSE IF porting
           THEN /\ Len(anchors_for_porting) + 2 * na * nl <= MaxPortingCalls * 2 * na * nl
                /\ \E st \in {PortingLoop(0, inp, strides, st0)} :
                    /\ anchors_for_porting' = st.afp
                    /\ ret' = IF st.exc # "" THEN Raised(st.exc) ELSE Returned("ported", st.outputs)
                /\ seen' = [training |-> training, porting |-> porting, rebuilt |-> {}]
                /\ UNCHANGED <<grid, anchor_grid>>
           ELSE /\ \E st \in {MainLoop(0, inp, strides, training, st0)} :
                    /\ grid' = st.grid
                    /\ anchor_grid' = st.anchor_grid
                    /\ seen' = [training |-> training, porting |-> porting, rebuilt |-> st.rebuilt]
                    /\ ret' = IF st.exc # "" THEN Raised(st.exc)
                              ELSE IF training THEN Returned("raw", st.xs)
                              ELSE IF CatRaises(st.outputs) THEN Raised("RuntimeError")
                              ELSE Detections(Cat(st.outputs))
                /\ UNCHANGED anchors_for_porting

\* model.train() / model.eval()
Train(mode) ==
    /\ training' = mode
    /\ UNCHANGED <<strides, porting, grid, anchor_grid, anchors_for_porting, x, seen, ret, nmsVars>>

\* head.porting = flag
SetPorting(flag) ==
    /\ porting' = flag
    /\ UNCHANGED <<strides, training, grid, anchor_grid, anchors_for_porting, x, seen, ret, nmsVars>>

----------------------------------------------------------------------------
(* The suppressor (nms.AnchornizedNMS): box geometry and greedy suppression. *)
(* A candidate is [box |-> <<cx, cy, w, h>>, conf |-> hundredths, cls |-> id]. *)
(* Thresholds are rationals <<num, den>>.                                    *)

\* offset per class id that makes boxes of different classes disjoint
max_wh == 4096

\* cap on kept detections per batch item
max_detections == 3

\* x1 = cx - w/2, y1 = cy - h/2, x2 = cx + w/2, y2 = cy + h/2, in half units
ToCorners(b) == <<2 * b[1] - b[3], 2 * b[2] - b[4], 2 * b[1] + b[3], 2 * b[2] + b[4]>>

Max(a, b) == IF a >= b THEN a ELSE b
Min(a, b) == IF a <= b THEN a ELSE b

\* area of a degenerate box is 0
Area(c) == IF c[3] <= c[1] \/ c[4] <= c[2] THEN 0 ELSE (c[3] - c[1]) * (c[4] - c[2])

Intersection(a, b) ==
    Max(0, Min(a[3], b[3]) - Max(a[1], b[1])) * Max(0, Min(a[4], b[4]) - Max(a[2], b[2]))

\* <<intersection, union>>; 0 when the union is 0
IoU(a, b) ==
    LET i == Intersection(a, b)
        u == Area(a) + Area(b) - i
    IN  IF u = 0 THEN <<0, 1>> ELSE <<i, u>>

\* corner box used for the overlap test: offset by the class id unless agnostic
NmsBox(c, agnostic) ==
    LET k == ToCorners(c.box)
        o == IF agnostic THEN 0 ELSE 2 * max_wh * c.cls
    IN  <<k[1] + o, k[2] + o, k[3] + o, k[4] + o>>

\* variant: the comparison with the threshold reversed
OverlapsFlipped(a, b, iou_thr, agnostic) ==
    LET r == IoU(NmsBox(a, agnostic), NmsBox(b, agnostic))
    IN  r[1] * iou_thr[2] < iou_thr[1] * r[2]

\* IoU with the selected box exceeds iou_threshold
Overlaps(a, b, iou_thr, agnostic) ==
    LET r == IoU(NmsBox(a, agnostic), NmsBox(b, agnostic))
    IN  r[1] * iou_thr[2] > iou_thr[1] * r[2]

\* step 1: drop candidates below conf_threshold
Filter(cands, conf_thr) ==
    LET keep(c) == c.conf * conf_thr[2] >= conf_thr[1] * 100
    IN  SelectSeq(cands, keep)

\* step 5: stable sort by confidence, descending
RECURSIVE SortDesc(_)
SortDesc(cands) ==
    IF cands = <<>> THEN <<>>
    ELSE LET m == CHOOSE k \in 1..Len(cands) :
                      /\ \A j \in 1..Len(cands) : cands[j].conf <= cands[k].conf
                      /\ \A j \in 1..(k - 1) : cands[j].conf < cands[k].conf
         IN  <<cands[m]>> \o SortDesc(SubSeq(cands, 1, m - 1) \o SubSeq(cands, m + 1, Len(cands)))

\* step 6: select the best remaining candidate, drop what overlaps it, repeat
RECURSIVE Greedy(_, _, _, _)
Greedy(rest, kept, iou_thr, agnostic) ==
    IF rest = <<>> \/ Len(kept) >= max_detections THEN kept
    ELSE LET sel == Head(rest)
             stays(c) == ~Overlaps(sel, c, iou_thr, agnostic)
         IN  Greedy(SelectSeq(Tail(rest), stays), Append(kept, sel), iou_thr, agnostic)

Suppress(cands, conf_thr, iou_thr, agnostic) ==
    Greedy(SortDesc(Filter(cands, conf_thr)), <<>>, iou_thr, agnostic)

\* inputs of the suppressor's specification
Boxes == {<<cx, cy, 10, 10>> : cx \in {0, 2, 4}, cy \in {0, 3}}
ConfThresholds == {<<1, 100>>, <<60, 100>>}
IouThresholds == {<<5, 10>>, <<6, 10>>, <<10, 10>>}
ConfOf(pattern, k) == IF pattern = 0 THEN 90 ELSE <<50, 90, 0>>[((k - 1) % 3) + 1]
ClsOf(pattern, k) == IF pattern = 0 THEN 0 ELSE (k - 1) % 2

\* a new candidate arrives: any earlier result is for another list
AddCandidate(b) ==
    /\ Len(nms_in) < MaxCands
    /\ nms_in' = Append(nms_in, [box |-> b,
                                 conf |-> ConfOf(nms_cfg.confs, Len(nms_in) + 1),
                                 cls |-> ClsOf(nms_cfg.classes, Len(nms_in) + 1)])
    /\ nms_out' = [t \in {} |-> <<>>]
    /\ UNCHANGED <<nms_cfg, headVars>>

\* suppress(candidates) with iou threshold t
RunSuppress(t) ==
    /\ t \notin DOMAIN nms_out
    /\ nms_out' = [u \in DOMAIN nms_out \cup {t} |->
                      IF u = t THEN Suppress(nms_in, nms_cfg.conf_thr, t, nms_cfg.agnostic)
                      ELSE nms_out[u]]
    /\ UNCHANGED <<nms_cfg, nms_in, headVars>>

----------------------------------------------------------------------------
(* Specifications *)

NmsIdle == [conf_thr |-> <<1, 100>>, agnostic |-> FALSE, confs |-> 0, classes |-> 0]

InitHead(strd) ==
    /\ strides = strd
    /\ training = TRUE
    /\ porting = FALSE
    /\ grid = [i \in 0..(nl - 1) |-> Zeros1]
    /\ anchor_grid = [i \in 0..(nl - 1) |-> Zeros1]
    /\ anchors_for_porting = <<>>
    /\ x = NoInput
    /\ seen = [training |-> TRUE, porting |-> FALSE, rebuilt |-> {}]
    /\ ret = NoReturn

InitNmsIdle ==
    /\ nms_cfg = NmsIdle
    /\ nms_in = <<>>
    /\ nms_out = [t \in {} |-> <<>>]

\* the head as Model.__init__ constructs it: default anchors and strides
Init == InitHead(DefaultStrides) /\ InitNmsIdle

Next ==
    \/ \E inp \in Inputs : Forward(inp)
    \/ \E mode \in BOOLEAN : Train(mode)
    \/ \E flag \in BOOLEAN : SetPorting(flag)

Spec == Init /\ [][Next]_vars

\* the constructor called with a strides argument of any length
StrideConfigs == {<<8, 16>>, <<8, 16, 32>>, <<8, 16, 32, 64>>}

InitCfg == (\E strd \in StrideConfigs : InitHead(strd)) /\ InitNmsIdle

SpecCfg == InitCfg /\ [][Next]_vars

\* the suppressor applied to bounded candidate lists
InitNms ==
    /\ InitHead(DefaultStrides)
    /\ nms_cfg \in [conf_thr : ConfThresholds, agnostic : BOOLEAN, confs : 0..1, classes : 0..1]
    /\ nms_in = <<>>
    /\ nms_out = [t \in {} |-> <<>>]

NextNms ==
    \/ \E b \in Boxes : AddCandidate(b)
    \/ \E t \in IouThresholds : RunSuppress(t)

SpecNms == InitNms /\ [][NextNms]_vars

----------------------------------------------------------------------------
(* Vocabulary of the properties *)

\* (H, W) of the feature map of scale i in the last call
FeatH(i) == x.HW[i + 1][1]
FeatW(i) == x.HW[i + 1][2]

\* comparison of rationals with positive denominators
RatEq(p, q) == p[1] * q[2] = q[1] * p[2]
RatLt(p, q) == p[1] * q[2] < q[1] * p[2]
RatLe(p, q) == p[1] * q[2] <= q[1] * p[2]

\* the last call was an inference-mode decode (training = false, porting = false)
InferenceCall == x.ok /\ ~seen.training /\ ~seen.porting /\ ret.kind # "none"

\* number of candidates of the scales before scale i
RECURSIVE CandidatesBefore(_)
CandidatesBefore(i) == IF i = 0 THEN 0 ELSE CandidatesBefore(i - 1) + na * FeatH(i - 1) * FeatW(i - 1)

\* position in scale-major, then anchor, row, column order
RowOf(i, a, r, c) == CandidatesBefore(i) + (a * FeatH(i) + r) * FeatW(i) + c

Scales == 0..(nl - 1)
Positions(i) == {arc \in (0..(na - 1)) \X (0..(FeatH(i) - 1)) \X (0..(FeatW(i) - 1)) : TRUE}

\* squashed raw channel ch of anchor a at cell (r, c) of scale i, batch item n
Sq(n, i, a, r, c, ch) == Sigmoid(RawLogit(i, n, a * nch + ch, r, c))

\* channel ch of the candidate of (scale, anchor, row, column) in the tensor handed to the suppressor
Cand(n, i, a, r, c, ch) == At(ret.tensor, <<n, RowOf(i, a, r, c), ch>>)

----------------------------------------------------------------------------
\* C1: after any sequence of calls, every scale an inference-mode decode has
\* just decoded has a Grid and an AnchorGrid of the spatial shape of that call's
\* feature map, with Grid[r][c] = (c, r) for every anchor and AnchorGrid =
\* anchors[i][a] * strides[i] at every cell.
C1_GridMatchesFeatureMap ==
    InferenceCall =>
        \A i \in Scales : i < Len(strides) =>
            /\ grid[i].shape = <<1, na, FeatH(i), FeatW(i), 2>>
            /\ anchor_grid[i].shape = <<1, na, FeatH(i), FeatW(i), 2>>
            /\ \A p \in Positions(i) :
                /\ At(grid[i], <<0, p[1], p[2], p[3], 0>>) = p[3]
                /\ At(grid[i], <<0, p[1], p[2], p[3], 1>>) = p[2]
                /\ At(anchor_grid[i], <<0, p[1], p[2], p[3], 0>>) = anchors(i, p[1])[1] * strides[i + 1]
                /\ At(anchor_grid[i], <<0, p[1], p[2], p[3], 1>>) = anchors(i, p[1])[2] * strides[i + 1]

\* a decode that rebuilt scale 1 alone: a later change of (H, W), the other scales served from the cache
C1_Witness == InferenceCall /\ ret.kind = "nms" /\ seen.rebuilt = {1}

\* C2: a slot of the cache changes only in an inference-mode decode whose
\* feature map for that scale has an (H, W) different from the slot's cached
\* shape; every other slot, and every slot in every other call, stays as it is.
C2_SlotReplacedOnlyOnShapeChange ==
    [][\A i \in Scales :
          (grid'[i] # grid[i] \/ anchor_grid'[i] # anchor_grid[i]) =>
              /\ ~training /\ ~porting /\ x'.ok
              /\ Slice(grid[i].shape, 2, 4) # x'.HW[i + 1]
              /\ i \in seen'.rebuilt]_vars

\* a decode served from the cache for every scale
C2_Witness == InferenceCall /\ ret.kind = "nms" /\ seen.rebuilt = {}

\* what a call returns when it passes the raw per-scale tensors through:
\* one tensor per scale, each element the raw activation of its
\* (anchor, channel, cell), and no slot of the cache rebuilt
RawReturned ==
    /\ ret.kind = "raw"
    /\ Len(ret.list) = nl
    /\ seen.rebuilt = {}
    /\ \A i \in Scales :
        /\ ret.list[i + 1].shape = <<x.N[i + 1], na, FeatH(i), FeatW(i), nch>>
        /\ \A n \in 0..(x.N[i + 1] - 1), p \in Positions(i), ch \in 0..(nch - 1) :
              At(ret.list[i + 1], <<n, p[1], p[2], p[3], ch>>) = RawLogit(i, n, p[1] * nch + ch, p[2], p[3])

\* C3 as stated: in training mode forward returns the raw per-scale tensors.
C3_TrainingReturnsRaw_AsStated == (x.ok /\ seen.training) => RawReturned

\* C3 (amended): in training mode with the porting flag off, forward returns
\* the list of raw per-scale tensors: no squash, no grid / anchor / stride
\* transform, no suppression, no cache slot rebuilt.
C3_TrainingReturnsRaw == (x.ok /\ seen.training /\ ~seen.porting) => RawReturned

\* a training-mode call whose feature maps have different batch sizes
C3_Witness == x.ok /\ seen.training /\ ~seen.porting /\ ret.kind = "raw" /\ x.N = <<1, 2, 1>>

\* the decode equations of one candidate, from the raw activations, the cell
\* and the anchor: cx = (2 sig(tx) - 0.5 + col) stride, cy likewise with row,
\* w = (2 sig(tw))^2 anchor_w stride, h likewise; objectness and attributes
\* are the squashed activations
DecodedAsSpecified(n, i, a, r, c) ==
    LET S == strides[i + 1]
        D == SigDen
    IN  /\ RatEq(Cand(n, i, a, r, c, 0), <<(4 * Sq(n, i, a, r, c, 0) - D + 2 * D * c) * S, 2 * D>>)
        /\ RatEq(Cand(n, i, a, r, c, 1), <<(4 * Sq(n, i, a, r, c, 1) - D + 2 * D * r) * S, 2 * D>>)
        /\ RatEq(Cand(n, i, a, r, c, 2),
                 <<4 * Sq(n, i, a, r, c, 2) * Sq(n, i, a, r, c, 2) * anchors(i, a)[1] * S, D * D>>)
        /\ RatEq(Cand(n, i, a, r, c, 3),
                 <<4 * Sq(n, i, a, r, c, 3) * Sq(n, i, a, r, c, 3) * anchors(i, a)[2] * S, D * D>>)
        /\ \A ch \in 4..(nch - 1) : RatEq(Cand(n, i, a, r, c, ch), <<Sq(n, i, a, r, c, ch), D>>)

\* centre strictly inside ((col - 0.5) stride, (col + 1.5) stride), likewise for
\* the row; each side positive and less than 4 times the stride-scaled anchor
BoxStrictlyBounded(n, i, a, r, c) ==
    LET S == strides[i + 1]
    IN  /\ RatLt(<<(2 * c - 1) * S, 2>>, Cand(n, i, a, r, c, 0))
        /\ RatLt(Cand(n, i, a, r, c, 0), <<(2 * c + 3) * S, 2>>)
        /\ RatLt(<<(2 * r - 1) * S, 2>>, Cand(n, i, a, r, c, 1))
        /\ RatLt(Cand(n, i, a, r, c, 1), <<(2 * r + 3) * S, 2>>)
        /\ RatLt(<<0, 1>>, Cand(n, i, a, r, c, 2))
        /\ RatLt(Cand(n, i, a, r, c, 2), <<4 * anchors(i, a)[1] * S, 1>>)
        /\ RatLt(<<0, 1>>, Cand(n, i, a, r, c, 3))
        /\ RatLt(Cand(n, i, a, r, c, 3), <<4 * anchors(i, a)[2] * S, 1>>)

\* the same bounds with the ends included
BoxBounded(n, i, a, r, c) ==
    LET S == strides[i + 1]
    IN  /\ RatLe(<<(2 * c - 1) * S, 2>>, Cand(n, i, a, r, c, 0))
        /\ RatLe(Cand(n, i, a, r, c, 0), <<(2 * c + 3) * S, 2>>)
        /\ RatLe(<<(2 * r - 1) * S, 2>>, Cand(n, i, a, r, c, 1))
        /\ RatLe(Cand(n, i, a, r, c, 1), <<(2 * r + 3) * S, 2>>)
        /\ RatLe(<<0, 1>>, Cand(n, i, a, r, c, 2))
        /\ RatLe(Cand(n, i, a, r, c, 2), <<4 * anchors(i, a)[1] * S, 1>>)
        /\ RatLe(<<0, 1>>, Cand(n, i, a, r, c, 3))
        /\ RatLe(Cand(n, i, a, r, c, 3), <<4 * anchors(i, a)[2] * S, 1>>)

\* C4 as stated: every candidate of an inference-mode decode follows the decode
\* equations, its centre lies strictly between (col - 0.5) stride and
\* (col + 1.5) stride (likewise for the row), and each side is positive and
\* less than 4 times the stride-scaled anchor dimension.
C4_DecodedBox_AsStated ==
    (InferenceCall /\ ret.kind = "nms") =>
        \A i \in Scales : \A n \in 0..(x.N[i + 1] - 1), p \in Positions(i) :
            DecodedAsSpecified(n, i, p[1], p[2], p[3]) /\ BoxStrictlyBounded(n, i, p[1], p[2], p[3])

\* C4 (amended): every candidate of an inference-mode decode follows the decode
\* equations with the squash taking values in [0, 1], ends included; the centre
\* lies between (col - 0.5) stride and (col + 1.5) stride (likewise for the
\* row) and each side between 0 and 4 times the stride-scaled anchor dimension,
\* ends included; objectness and attributes are only squashed.
C4_DecodedBox ==
    (InferenceCall /\ ret.kind = "nms") =>
        \A i \in Scales : \A n \in 0..(x.N[i + 1] - 1), p \in Positions(i) :
            DecodedAsSpecified(n, i, p[1], p[2], p[3]) /\ BoxBounded(n, i, p[1], p[2], p[3])

\* a decode with a saturated width: exactly 4 times the stride-scaled anchor width
C4_Witness ==
    /\ InferenceCall /\ ret.kind = "nms"
    /\ \E i \in Scales : \E p \in Positions(i) :
          RatEq(Cand(0, i, p[1], p[2], p[3], 2), <<4 * anchors(i, p[1])[1] * strides[i + 1], 1>>)

\* C5: the tensor an inference-mode decode hands to the suppressor has, per
\* batch item, exactly sum over scales of na * H * W candidates of nch channels.
C5_CandidateCount ==
    (InferenceCall /\ ret.kind = "nms") =>
        /\ ret.tensor.shape = <<x.N[1], CandidatesBefore(nl), nch>>
        /\ DOMAIN ret.tensor.at = 0..(x.N[1] * CandidatesBefore(nl) * nch - 1)
        /\ UNION {{RowOf(i, p[1], p[2], p[3]) : p \in Positions(i)} : i \in Scales}
              = 0..(ret.tensor.shape[2] - 1)

\* a decode of three feature maps of unrelated sizes with scale 1 served from the cache
C5_Witness ==
    /\ InferenceCall /\ ret.kind = "nms" /\ seen.rebuilt = {0, 2}
    /\ x.HW[1] # x.HW[2] /\ FeatH(2) * FeatW(2) # FeatH(1) * FeatW(1)

PortedValues ==
    [k \in 1..(nl * na * 2) |->
        Anchors[((k - 1) \div (2 * na)) + 1][((k - 1) % (2 * na)) + 1] * strides[((k - 1) \div (2 * na)) + 1]]

\* C10: anchors_for_porting changes only in porting-mode calls, each appending
\* the 2 * na stride-scaled anchor values of every scale in scale order, so it
\* always is a whole number of copies of them; a call made with the porting
\* flag set returns the ported list whatever the training flag, and no step
\* taken with the porting flag set changes a slot of the cache.
C10_Porting ==
    [][/\ anchors_for_porting' # anchors_for_porting =>
            /\ porting /\ x'.ok
            /\ anchors_for_porting' = anchors_for_porting \o PortedValues
       /\ Len(anchors_for_porting') % (nl * na * 2) = 0
       /\ \A k \in 1..Len(anchors_for_porting') :
            anchors_for_porting'[k] = PortedValues[((k - 1) % (nl * na * 2)) + 1]
       /\ porting => (grid' = grid /\ anchor_grid' = anchor_grid)
       /\ (seen'.porting /\ x'.ok) => (ret'.kind = "ported" /\ Len(ret'.list) = nl /\ seen'.rebuilt = {})
       /\ ~seen'.porting => ret'.kind # "ported"]_vars

\* two porting-mode calls made in training mode: the values are there twice
C10_Witness ==
    /\ Len(anchors_for_porting) = 2 * nl * na * 2
    /\ x.ok /\ seen.porting /\ seen.training /\ ret.kind = "ported"

----------------------------------------------------------------------------
\* C6: every constructed decoder has as many strides as anchor groups, and no
\* decode raises because the two counts differ.
C6_MismatchRejected == Len(strides) = nl /\ ret.exc # "IndexError"

\* C7: a call that fails leaves every slot of the cache as it was before the call.
C7_FailedCallLeavesCache ==
    [][ret'.kind = "raised" => (grid' = grid /\ anchor_grid' = anchor_grid)]_vars

----------------------------------------------------------------------------
\* the kept counts are ordered like the thresholds
ThrLe(t1, t2) == t1[1] * t2[2] <= t2[1] * t1[2]

\* C8 as stated: for all iou thresholds t1 <= t2 tried on the same candidate
\* list, the number kept at t1 is at most the number kept at t2.
C8_IouMonotone_AsStated ==
    \A t1 \in DOMAIN nms_out, t2 \in DOMAIN nms_out :
        ThrLe(t1, t2) => Len(nms_out[t1]) <= Len(nms_out[t2])

\* C8 (amended): for iou thresholds t1 <= t2 the number kept at t1 is at most
\* the number kept at t2 when t2 is 1 (nothing is suppressed) or when at most
\* three candidates pass the confidence filter.
C8_IouMonotone ==
    \A t1 \in DOMAIN nms_out, t2 \in DOMAIN nms_out :
        (ThrLe(t1, t2) /\ (t2[1] = t2[2] \/ Len(Filter(nms_in, nms_cfg.conf_thr)) <= 3)) =>
            Len(nms_out[t1]) <= Len(nms_out[t2])

\* the same list suppressed at a threshold below 1 and at 1, with fewer kept below
C8_Witness ==
    \E t \in DOMAIN nms_out :
        /\ <<10, 10>> \in DOMAIN nms_out
        /\ Len(nms_out[t]) < Len(nms_out[<<10, 10>>])

====
